---- MODULE Spec2Model ----
(***************************************************************************)
(* Model of src/lambda/list_s3_contents.py: the API Gateway handler that   *)
(* lists one page of an S3 bucket.                                         *)
(*                                                                         *)
(* Python values are tagged records ([t |-> "None"], [t |-> "int", ...]),  *)
(* so that values of different Python types can be compared.  A key that   *)
(* is missing from a dict the code reads is the value Absent; None is      *)
(* PyNone.  A dict the code builds is PyDict: its items in insertion       *)
(* order, the order json.dumps writes them in.                             *)
(*                                                                         *)
(* A str is Text(cs), cs its Unicode code points; Str("abc") is the str    *)
(* of a printable ASCII text, and Codes("abc") its code points.  The body  *)
(* of a response is the code points of its JSON text.  A dict the code     *)
(* only reads (the event, a page of the backend) is a record of the keys   *)
(* the code reads.  A float is counted in hundredths.  Integers are TLC's, *)
(* so an int() result has at most nine significant digits.                 *)
(***************************************************************************)
EXTENDS Integers, Sequences, FiniteSets, TLC

VARIABLES
    env,          \* os.environ: the process-wide configuration (BUCKET_NAME)
    pc,           \* "idle", "calling" (inside list_objects_v2) or "done"
    event,        \* the event of the invocation
    args,         \* the arguments of the call of list_bucket_objects
    list_params,  \* the keyword arguments of list_objects_v2
    calls,        \* the calls of list_objects_v2 made by the invocation
    raw,          \* what list_objects_v2 did: a page, or an exception
    response,     \* the ApiResponse lambda_handler returned
    payload,      \* the body handed to create_response, before json.dumps
    raised        \* the exception that left lambda_handler, if one did

vars == <<env, pc, event, args, list_params, calls, raw, response, payload, raised>>

----------------------------------------------------------------------------
(* Bounds of the model *)

\* Longest Contents list the backend returns in one page.
MaxObjects == 2

\* Backend calls after which an invocation is cut off (the handler makes one).
MaxCalls == 3

\* Length of the long max_keys text that int() rejects.
LongText == 205

\* Length of the max_keys text that is all digits, too many for int().
ManyDigits == 4301

----------------------------------------------------------------------------
(* Python values *)

Absent == [t |-> "absent"]
PyNone == [t |-> "None"]
PyInt(n) == [t |-> "int", n |-> n]
PyBool(b) == [t |-> "bool", b |-> b]
PyFloat(h) == [t |-> "float", hundredths |-> h]
Text(cs) == [t |-> "str", chars |-> cs]
List(xs) == [t |-> "list", items |-> xs]
PyDict(items) == [t |-> "dict", items |-> items]

\* One item of a dict the code builds.
Item(k, v) == [k |-> k, v |-> v]

\* Whether the built dict d has the key k.
HasKey(d, k) == \E i \in 1..Len(d.items) : d.items[i].k = k

\* d[k] of a built dict.
Lookup(d, k) == d.items[CHOOSE i \in 1..Len(d.items) : d.items[i].k = k].v

\* bool(v): the truth value Python gives a value in `if v` and `v or d`.
Truthy(v) ==
    CASE v.t = "None" -> FALSE
      [] v.t = "absent" -> FALSE
      [] v.t = "bool" -> v.b
      [] v.t = "int" -> v.n # 0
      [] v.t = "float" -> v.hundredths # 0
      [] v.t = "str" -> v.chars # <<>>
      [] v.t = "list" -> v.items # <<>>
      [] v.t = "dict" ->
           IF "items" \in DOMAIN v THEN v.items # <<>>
           ELSE \E k \in DOMAIN v \ {"t"} : v[k] # Absent
      [] OTHER -> TRUE

\* d.get(k, default) on a dict whose missing keys hold Absent.
Get(d, k, default) == IF d[k] = Absent THEN default ELSE d[k]

----------------------------------------------------------------------------
(* Characters *)

\* The printable ASCII characters, code points 32 to 126, but for the grave
\* accent (96), which a TLA+ string cannot hold: its place is left empty.
Ascii ==
    <<
    " ", "!", "\"", "#", "$", "%", "&", "'", "(", ")", "*", "+",
    ",", "-", ".", "/", "0", "1", "2", "3", "4", "5", "6", "7",
    "8", "9", ":", ";", "<", "=", ">", "?", "@", "A", "B", "C",
    "D", "E", "F", "G", "H", "I", "J", "K", "L", "M", "N", "O",
    "P", "Q", "R", "S", "T", "U", "V", "W", "X", "Y", "Z", "[",
    "\\", "]", "^", "_", "", "a", "b", "c", "d", "e", "f", "g",
    "h", "i", "j", "k", "l", "m", "n", "o", "p", "q", "r", "s",
    "t", "u", "v", "w", "x", "y", "z", "{", "|", "}", "~" >>

\* The code point of each of them.
CodePoints ==
    [c \in {Ascii[i] : i \in 1..Len(Ascii)} \ {""} |->
        31 + (CHOOSE i \in 1..Len(Ascii) : Ascii[i] = c)]

\* The code point of a printable ASCII character.
Ord(c) == CodePoints[c]

\* The code points of a printable ASCII text.
Codes(s) == [i \in 1..Len(s) |-> Ord(SubSeq(s, i, i))]

\* The str of a printable ASCII text.
Str(s) == Text(Codes(s))

\* The zero of every run of Unicode decimal digits (category Nd, Unicode
\* 14.0): int() reads each of them as a digit.
DigitZeros ==
    {
    48, 1632, 1776, 1984, 2406, 2534, 2662, 2790, 2918, 3046,
    3174, 3302, 3430, 3558, 3664, 3792, 3872, 4160, 4240, 6112,
    6160, 6470, 6608, 6784, 6800, 6992, 7088, 7232, 7248, 42528,
    43216, 43264, 43472, 43504, 43600, 44016, 65296, 66720, 68912, 69734,
    69872, 69942, 70096, 70384, 70736, 70864, 71248, 71360, 71472, 71904,
    72016, 72784, 73040, 73120, 92768, 92864, 93008, 120782, 120792, 120802,
    120812, 120822, 123200, 123632, 125264, 130032 }

IsDigit(c) == \E z \in DigitZeros : z <= c /\ c <= z + 9

DigitValue(c) == c - (CHOOSE z \in DigitZeros : z <= c /\ c <= z + 9)

\* The characters int() skips around a number: ASCII whitespace and the
\* Unicode spaces it first turns into a blank.
Whitespace ==
    {9, 10, 11, 12, 13, 32, 133, 160, 5760, 8192, 8193, 8194, 8195, 8196,
     8197, 8198, 8199, 8200, 8201, 8202, 8232, 8233, 8239, 8287, 12288}

\* The code points from 128 on that str.isprintable() rejects, as ranges;
\* repr() escapes them.
NonPrintable ==
    {
    <<128, 160>>, <<173, 173>>, <<888, 889>>, <<896, 899>>, <<907, 907>>,
    <<909, 909>>, <<930, 930>>, <<1328, 1328>>, <<1367, 1368>>, <<1419, 1420>>,
    <<1424, 1424>>, <<1480, 1487>>, <<1515, 1518>>, <<1525, 1541>>, <<1564, 1564>>,
    <<1757, 1757>>, <<1806, 1807>>, <<1867, 1868>>, <<1970, 1983>>, <<2043, 2044>>,
    <<2094, 2095>>, <<2111, 2111>>, <<2140, 2141>>, <<2143, 2143>>, <<2155, 2159>>,
    <<2191, 2199>>, <<2274, 2274>>, <<2436, 2436>>, <<2445, 2446>>, <<2449, 2450>>,
    <<2473, 2473>>, <<2481, 2481>>, <<2483, 2485>>, <<2490, 2491>>, <<2501, 2502>>,
    <<2505, 2506>>, <<2511, 2518>>, <<2520, 2523>>, <<2526, 2526>>, <<2532, 2533>>,
    <<2559, 2560>>, <<2564, 2564>>, <<2571, 2574>>, <<2577, 2578>>, <<2601, 2601>>,
    <<2609, 2609>>, <<2612, 2612>>, <<2615, 2615>>, <<2618, 2619>>, <<2621, 2621>>,
    <<2627, 2630>>, <<2633, 2634>>, <<2638, 2640>>, <<2642, 2648>>, <<2653, 2653>>,
    <<2655, 2661>>, <<2679, 2688>>, <<2692, 2692>>, <<2702, 2702>>, <<2706, 2706>>,
    <<2729, 2729>>, <<2737, 2737>>, <<2740, 2740>>, <<2746, 2747>>, <<2758, 2758>>,
    <<2762, 2762>>, <<2766, 2767>>, <<2769, 2783>>, <<2788, 2789>>, <<2802, 2808>>,
    <<2816, 2816>>, <<2820, 2820>>, <<2829, 2830>>, <<2833, 2834>>, <<2857, 2857>>,
    <<2865, 2865>>, <<2868, 2868>>, <<2874, 2875>>, <<2885, 2886>>, <<2889, 2890>>,
    <<2894, 2900>>, <<2904, 2907>>, <<2910, 2910>>, <<2916, 2917>>, <<2936, 2945>>,
    <<2948, 2948>>, <<2955, 2957>>, <<2961, 2961>>, <<2966, 2968>>, <<2971, 2971>>,
    <<2973, 2973>>, <<2976, 2978>>, <<2981, 2983>>, <<2987, 2989>>, <<3002, 3005>>,
    <<3011, 3013>>, <<3017, 3017>>, <<3022, 3023>>, <<3025, 3030>>, <<3032, 3045>>,
    <<3067, 3071>>, <<3085, 3085>>, <<3089, 3089>>, <<3113, 3113>>, <<3130, 3131>>,
    <<3141, 3141>>, <<3145, 3145>>, <<3150, 3156>>, <<3159, 3159>>, <<3163, 3164>>,
    <<3166, 3167>>, <<3172, 3173>>, <<3184, 3190>>, <<3213, 3213>>, <<3217, 3217>>,
    <<3241, 3241>>, <<3252, 3252>>, <<3258, 3259>>, <<3269, 3269>>, <<3273, 3273>>,
    <<3278, 3284>>, <<3287, 3292>>, <<3295, 3295>>, <<3300, 3301>>, <<3312, 3312>>,
    <<3315, 3327>>, <<3341, 3341>>, <<3345, 3345>>, <<3397, 3397>>, <<3401, 3401>>,
    <<3408, 3411>>, <<3428, 3429>>, <<3456, 3456>>, <<3460, 3460>>, <<3479, 3481>>,
    <<3506, 3506>>, <<3516, 3516>>, <<3518, 3519>>, <<3527, 3529>>, <<3531, 3534>>,
    <<3541, 3541>>, <<3543, 3543>>, <<3552, 3557>>, <<3568, 3569>>, <<3573, 3584>>,
    <<3643, 3646>>, <<3676, 3712>>, <<3715, 3715>>, <<3717, 3717>>, <<3723, 3723>>,
    <<3748, 3748>>, <<3750, 3750>>, <<3774, 3775>>, <<3781, 3781>>, <<3783, 3783>>,
    <<3790, 3791>>, <<3802, 3803>>, <<3808, 3839>>, <<3912, 3912>>, <<3949, 3952>>,
    <<3992, 3992>>, <<4029, 4029>>, <<4045, 4045>>, <<4059, 4095>>, <<4294, 4294>>,
    <<4296, 4300>>, <<4302, 4303>>, <<4681, 4681>>, <<4686, 4687>>, <<4695, 4695>>,
    <<4697, 4697>>, <<4702, 4703>>, <<4745, 4745>>, <<4750, 4751>>, <<4785, 4785>>,
    <<4790, 4791>>, <<4799, 4799>>, <<4801, 4801>>, <<4806, 4807>>, <<4823, 4823>>,
    <<4881, 4881>>, <<4886, 4887>>, <<4955, 4956>>, <<4989, 4991>>, <<5018, 5023>>,
    <<5110, 5111>>, <<5118, 5119>>, <<5760, 5760>>, <<5789, 5791>>, <<5881, 5887>>,
    <<5910, 5918>>, <<5943, 5951>>, <<5972, 5983>>, <<5997, 5997>>, <<6001, 6001>>,
    <<6004, 6015>>, <<6110, 6111>>, <<6122, 6127>>, <<6138, 6143>>, <<6158, 6158>>,
    <<6170, 6175>>, <<6265, 6271>>, <<6315, 6319>>, <<6390, 6399>>, <<6431, 6431>>,
    <<6444, 6447>>, <<6460, 6463>>, <<6465, 6467>>, <<6510, 6511>>, <<6517, 6527>>,
    <<6572, 6575>>, <<6602, 6607>>, <<6619, 6621>>, <<6684, 6685>>, <<6751, 6751>>,
    <<6781, 6782>>, <<6794, 6799>>, <<6810, 6815>>, <<6830, 6831>>, <<6863, 6911>>,
    <<6989, 6991>>, <<7039, 7039>>, <<7156, 7163>>, <<7224, 7226>>, <<7242, 7244>>,
    <<7305, 7311>>, <<7355, 7356>>, <<7368, 7375>>, <<7419, 7423>>, <<7958, 7959>>,
    <<7966, 7967>>, <<8006, 8007>>, <<8014, 8015>>, <<8024, 8024>>, <<8026, 8026>>,
    <<8028, 8028>>, <<8030, 8030>>, <<8062, 8063>>, <<8117, 8117>>, <<8133, 8133>>,
    <<8148, 8149>>, <<8156, 8156>>, <<8176, 8177>>, <<8181, 8181>>, <<8191, 8207>>,
    <<8232, 8239>>, <<8287, 8303>>, <<8306, 8307>>, <<8335, 8335>>, <<8349, 8351>>,
    <<8385, 8399>>, <<8433, 8447>>, <<8588, 8591>>, <<9255, 9279>>, <<9291, 9311>>,
    <<11124, 11125>>, <<11158, 11158>>, <<11508, 11512>>, <<11558, 11558>>, <<11560, 11564>>,
    <<11566, 11567>>, <<11624, 11630>>, <<11633, 11646>>, <<11671, 11679>>, <<11687, 11687>>,
    <<11695, 11695>>, <<11703, 11703>>, <<11711, 11711>>, <<11719, 11719>>, <<11727, 11727>>,
    <<11735, 11735>>, <<11743, 11743>>, <<11870, 11903>>, <<11930, 11930>>, <<12020, 12031>>,
    <<12246, 12271>>, <<12284, 12288>>, <<12352, 12352>>, <<12439, 12440>>, <<12544, 12548>>,
    <<12592, 12592>>, <<12687, 12687>>, <<12772, 12783>>, <<12831, 12831>>, <<42125, 42127>>,
    <<42183, 42191>>, <<42540, 42559>>, <<42744, 42751>>, <<42955, 42959>>, <<42962, 42962>>,
    <<42964, 42964>>, <<42970, 42993>>, <<43053, 43055>>, <<43066, 43071>>, <<43128, 43135>>,
    <<43206, 43213>>, <<43226, 43231>>, <<43348, 43358>>, <<43389, 43391>>, <<43470, 43470>>,
    <<43482, 43485>>, <<43519, 43519>>, <<43575, 43583>>, <<43598, 43599>>, <<43610, 43611>>,
    <<43715, 43738>>, <<43767, 43776>>, <<43783, 43784>>, <<43791, 43792>>, <<43799, 43807>>,
    <<43815, 43815>>, <<43823, 43823>>, <<43884, 43887>>, <<44014, 44015>>, <<44026, 44031>>,
    <<55204, 55215>>, <<55239, 55242>>, <<55292, 63743>>, <<64110, 64111>>, <<64218, 64255>>,
    <<64263, 64274>>, <<64280, 64284>>, <<64311, 64311>>, <<64317, 64317>>, <<64319, 64319>>,
    <<64322, 64322>>, <<64325, 64325>>, <<64451, 64466>>, <<64912, 64913>>, <<64968, 64974>>,
    <<64976, 65007>>, <<65050, 65055>>, <<65107, 65107>>, <<65127, 65127>>, <<65132, 65135>>,
    <<65141, 65141>>, <<65277, 65280>>, <<65471, 65473>>, <<65480, 65481>>, <<65488, 65489>>,
    <<65496, 65497>>, <<65501, 65503>>, <<65511, 65511>>, <<65519, 65531>>, <<65534, 65535>>,
    <<65548, 65548>>, <<65575, 65575>>, <<65595, 65595>>, <<65598, 65598>>, <<65614, 65615>>,
    <<65630, 65663>>, <<65787, 65791>>, <<65795, 65798>>, <<65844, 65846>>, <<65935, 65935>>,
    <<65949, 65951>>, <<65953, 65999>>, <<66046, 66175>>, <<66205, 66207>>, <<66257, 66271>>,
    <<66300, 66303>>, <<66340, 66348>>, <<66379, 66383>>, <<66427, 66431>>, <<66462, 66462>>,
    <<66500, 66503>>, <<66518, 66559>>, <<66718, 66719>>, <<66730, 66735>>, <<66772, 66775>>,
    <<66812, 66815>>, <<66856, 66863>>, <<66916, 66926>>, <<66939, 66939>>, <<66955, 66955>>,
    <<66963, 66963>>, <<66966, 66966>>, <<66978, 66978>>, <<66994, 66994>>, <<67002, 67002>>,
    <<67005, 67071>>, <<67383, 67391>>, <<67414, 67423>>, <<67432, 67455>>, <<67462, 67462>>,
    <<67505, 67505>>, <<67515, 67583>>, <<67590, 67591>>, <<67593, 67593>>, <<67638, 67638>>,
    <<67641, 67643>>, <<67645, 67646>>, <<67670, 67670>>, <<67743, 67750>>, <<67760, 67807>>,
    <<67827, 67827>>, <<67830, 67834>>, <<67868, 67870>>, <<67898, 67902>>, <<67904, 67967>>,
    <<68024, 68027>>, <<68048, 68049>>, <<68100, 68100>>, <<68103, 68107>>, <<68116, 68116>>,
    <<68120, 68120>>, <<68150, 68151>>, <<68155, 68158>>, <<68169, 68175>>, <<68185, 68191>>,
    <<68256, 68287>>, <<68327, 68330>>, <<68343, 68351>>, <<68406, 68408>>, <<68438, 68439>>,
    <<68467, 68471>>, <<68498, 68504>>, <<68509, 68520>>, <<68528, 68607>>, <<68681, 68735>>,
    <<68787, 68799>>, <<68851, 68857>>, <<68904, 68911>>, <<68922, 69215>>, <<69247, 69247>>,
    <<69290, 69290>>, <<69294, 69295>>, <<69298, 69375>>, <<69416, 69423>>, <<69466, 69487>>,
    <<69514, 69551>>, <<69580, 69599>>, <<69623, 69631>>, <<69710, 69713>>, <<69750, 69758>>,
    <<69821, 69821>>, <<69827, 69839>>, <<69865, 69871>>, <<69882, 69887>>, <<69941, 69941>>,
    <<69960, 69967>>, <<70007, 70015>>, <<70112, 70112>>, <<70133, 70143>>, <<70162, 70162>>,
    <<70207, 70271>>, <<70279, 70279>>, <<70281, 70281>>, <<70286, 70286>>, <<70302, 70302>>,
    <<70314, 70319>>, <<70379, 70383>>, <<70394, 70399>>, <<70404, 70404>>, <<70413, 70414>>,
    <<70417, 70418>>, <<70441, 70441>>, <<70449, 70449>>, <<70452, 70452>>, <<70458, 70458>>,
    <<70469, 70470>>, <<70473, 70474>>, <<70478, 70479>>, <<70481, 70486>>, <<70488, 70492>>,
    <<70500, 70501>>, <<70509, 70511>>, <<70517, 70655>>, <<70748, 70748>>, <<70754, 70783>>,
    <<70856, 70863>>, <<70874, 71039>>, <<71094, 71095>>, <<71134, 71167>>, <<71237, 71247>>,
    <<71258, 71263>>, <<71277, 71295>>, <<71354, 71359>>, <<71370, 71423>>, <<71451, 71452>>,
    <<71468, 71471>>, <<71495, 71679>>, <<71740, 71839>>, <<71923, 71934>>, <<71943, 71944>>,
    <<71946, 71947>>, <<71956, 71956>>, <<71959, 71959>>, <<71990, 71990>>, <<71993, 71994>>,
    <<72007, 72015>>, <<72026, 72095>>, <<72104, 72105>>, <<72152, 72153>>, <<72165, 72191>>,
    <<72264, 72271>>, <<72355, 72367>>, <<72441, 72703>>, <<72713, 72713>>, <<72759, 72759>>,
    <<72774, 72783>>, <<72813, 72815>>, <<72848, 72849>>, <<72872, 72872>>, <<72887, 72959>>,
    <<72967, 72967>>, <<72970, 72970>>, <<73015, 73017>>, <<73019, 73019>>, <<73022, 73022>>,
    <<73032, 73039>>, <<73050, 73055>>, <<73062, 73062>>, <<73065, 73065>>, <<73103, 73103>>,
    <<73106, 73106>>, <<73113, 73119>>, <<73130, 73439>>, <<73465, 73647>>, <<73649, 73663>>,
    <<73714, 73726>>, <<74650, 74751>>, <<74863, 74863>>, <<74869, 74879>>, <<75076, 77711>>,
    <<77811, 77823>>, <<78895, 82943>>, <<83527, 92159>>, <<92729, 92735>>, <<92767, 92767>>,
    <<92778, 92781>>, <<92863, 92863>>, <<92874, 92879>>, <<92910, 92911>>, <<92918, 92927>>,
    <<92998, 93007>>, <<93018, 93018>>, <<93026, 93026>>, <<93048, 93052>>, <<93072, 93759>>,
    <<93851, 93951>>, <<94027, 94030>>, <<94088, 94094>>, <<94112, 94175>>, <<94181, 94191>>,
    <<94194, 94207>>, <<100344, 100351>>, <<101590, 101631>>, <<101641, 110575>>, <<110580, 110580>>,
    <<110588, 110588>>, <<110591, 110591>>, <<110883, 110927>>, <<110931, 110947>>, <<110952, 110959>>,
    <<111356, 113663>>, <<113771, 113775>>, <<113789, 113791>>, <<113801, 113807>>, <<113818, 113819>>,
    <<113824, 118527>>, <<118574, 118575>>, <<118599, 118607>>, <<118724, 118783>>, <<119030, 119039>>,
    <<119079, 119080>>, <<119155, 119162>>, <<119275, 119295>>, <<119366, 119519>>, <<119540, 119551>>,
    <<119639, 119647>>, <<119673, 119807>>, <<119893, 119893>>, <<119965, 119965>>, <<119968, 119969>>,
    <<119971, 119972>>, <<119975, 119976>>, <<119981, 119981>>, <<119994, 119994>>, <<119996, 119996>>,
    <<120004, 120004>>, <<120070, 120070>>, <<120075, 120076>>, <<120085, 120085>>, <<120093, 120093>>,
    <<120122, 120122>>, <<120127, 120127>>, <<120133, 120133>>, <<120135, 120137>>, <<120145, 120145>>,
    <<120486, 120487>>, <<120780, 120781>>, <<121484, 121498>>, <<121504, 121504>>, <<121520, 122623>>,
    <<122655, 122879>>, <<122887, 122887>>, <<122905, 122906>>, <<122914, 122914>>, <<122917, 122917>>,
    <<122923, 123135>>, <<123181, 123183>>, <<123198, 123199>>, <<123210, 123213>>, <<123216, 123535>>,
    <<123567, 123583>>, <<123642, 123646>>, <<123648, 124895>>, <<124903, 124903>>, <<124908, 124908>>,
    <<124911, 124911>>, <<124927, 124927>>, <<125125, 125126>>, <<125143, 125183>>, <<125260, 125263>>,
    <<125274, 125277>>, <<125280, 126064>>, <<126133, 126208>>, <<126270, 126463>>, <<126468, 126468>>,
    <<126496, 126496>>, <<126499, 126499>>, <<126501, 126502>>, <<126504, 126504>>, <<126515, 126515>>,
    <<126520, 126520>>, <<126522, 126522>>, <<126524, 126529>>, <<126531, 126534>>, <<126536, 126536>>,
    <<126538, 126538>>, <<126540, 126540>>, <<126544, 126544>>, <<126547, 126547>>, <<126549, 126550>>,
    <<126552, 126552>>, <<126554, 126554>>, <<126556, 126556>>, <<126558, 126558>>, <<126560, 126560>>,
    <<126563, 126563>>, <<126565, 126566>>, <<126571, 126571>>, <<126579, 126579>>, <<126584, 126584>>,
    <<126589, 126589>>, <<126591, 126591>>, <<126602, 126602>>, <<126620, 126624>>, <<126628, 126628>>,
    <<126634, 126634>>, <<126652, 126703>>, <<126706, 126975>>, <<127020, 127023>>, <<127124, 127135>>,
    <<127151, 127152>>, <<127168, 127168>>, <<127184, 127184>>, <<127222, 127231>>, <<127406, 127461>>,
    <<127491, 127503>>, <<127548, 127551>>, <<127561, 127567>>, <<127570, 127583>>, <<127590, 127743>>,
    <<128728, 128732>>, <<128749, 128751>>, <<128765, 128767>>, <<128884, 128895>>, <<128985, 128991>>,
    <<129004, 129007>>, <<129009, 129023>>, <<129036, 129039>>, <<129096, 129103>>, <<129114, 129119>>,
    <<129160, 129167>>, <<129198, 129199>>, <<129202, 129279>>, <<129620, 129631>>, <<129646, 129647>>,
    <<129653, 129655>>, <<129661, 129663>>, <<129671, 129679>>, <<129709, 129711>>, <<129723, 129727>>,
    <<129734, 129743>>, <<129754, 129759>>, <<129768, 129775>>, <<129783, 129791>>, <<129939, 129939>>,
    <<129995, 130031>>, <<130042, 131071>>, <<173792, 173823>>, <<177977, 177983>>, <<178206, 178207>>,
    <<183970, 183983>>, <<191457, 194559>>, <<195102, 196607>>, <<201547, 917759>>, <<918000, 1114111>> }

IsPrintable(c) ==
    IF c < 128 THEN 32 <= c /\ c < 127
    ELSE ~\E r \in NonPrintable : r[1] <= c /\ c <= r[2]

\* The first n elements of the sequence s, all of it when it is shorter.
Take(s, n) == SubSeq(s, 1, IF Len(s) < n THEN Len(s) ELSE n)

\* str.strip(chars): cs without its leading and trailing characters in drop.
Strip(cs, drop) ==
    LET kept == {i \in 1..Len(cs) : cs[i] \notin drop}
    IN  IF kept = {} THEN <<>>
        ELSE SubSeq(cs,
                    CHOOSE i \in kept : \A j \in kept : i <= j,
                    CHOOSE i \in kept : \A j \in kept : j <= i)

\* The code point of a hexadecimal digit, lower case.
HexCode(d) == IF d < 10 THEN 48 + d ELSE 87 + d

RECURSIVE HexChars(_, _)
\* n in w hexadecimal digits, as code points.
HexChars(n, w) ==
    IF w = 0 THEN <<>> ELSE Append(HexChars(n \div 16, w - 1), HexCode(n % 16))

Pad2(n) == IF n < 10 THEN "0" \o ToString(n) ELSE ToString(n)

Pad4(n) ==
    IF n < 10 THEN "000" \o ToString(n)
    ELSE IF n < 100 THEN "00" \o ToString(n)
    ELSE IF n < 1000 THEN "0" \o ToString(n)
    ELSE ToString(n)

Pad6(n) ==
    IF n < 10 THEN "00000" \o ToString(n)
    ELSE IF n < 100 THEN "0000" \o ToString(n)
    ELSE IF n < 1000 THEN "000" \o ToString(n)
    ELSE IF n < 10000 THEN "00" \o ToString(n)
    ELSE IF n < 100000 THEN "0" \o ToString(n)
    ELSE ToString(n)

----------------------------------------------------------------------------
(* int() and the message of its ValueError: line 44 *)

\* sys.get_int_max_str_digits().
MaxStrDigits == 4300

\* The characters '%.200R' keeps of the repr in the message.
MaxReprChars == 200

RECURSIVE DigitsValue(_, _)
\* The number spelled by the digit values ds, after acc.
DigitsValue(ds, acc) ==
    IF ds = <<>> THEN acc ELSE DigitsValue(Tail(ds), 10 * acc + Head(ds))

\* The number spelled by a run of digits and underscores.
RunValue(run) ==
    LET ds == SelectSeq(run, IsDigit)
        vs == [i \in 1..Len(ds) |-> DigitValue(ds[i])]
        nz == {i \in 1..Len(vs) : vs[i] # 0}
    IN  IF nz = {} THEN 0
        ELSE DigitsValue(SubSeq(vs, CHOOSE i \in nz : \A j \in nz : i <= j,
                                Len(vs)), 0)

\* The first position from i on of cs that holds no whitespace, Len(cs) + 1
\* when there is none.
SkipWhitespace(cs, i) ==
    LET rest == {j \in i..Len(cs) : cs[j] \notin Whitespace}
    IN  IF rest = {} THEN Len(cs) + 1
        ELSE CHOOSE j \in rest : \A k \in rest : j <= k

\* The first position from i on of cs that holds neither a digit nor an
\* underscore, Len(cs) + 1 when there is none.
RunEnd(cs, i) ==
    LET rest == {j \in i..Len(cs) : ~IsDigit(cs[j]) /\ cs[j] # 95}
    IN  IF rest = {} THEN Len(cs) + 1
        ELSE CHOOSE j \in rest : \A k \in rest : j <= k

\* A run of digits and underscores that is no number: empty, or with an
\* underscore that is not between two digits.
Malformed(run) ==
    \/ run = <<>>
    \/ run[1] = 95
    \/ run[Len(run)] = 95
    \/ \E i \in 1..(Len(run) - 1) : run[i] = 95 /\ run[i + 1] = 95

\* int() once the run of digits is scanned: the run, its sign, and the
\* position e after it.  The run is checked first, then its length against
\* the limit, then what follows it.
ParseTail(cs, negative, run, e) ==
    IF Malformed(run) THEN [ok |-> FALSE, why |-> "invalid"]
    ELSE IF Len(SelectSeq(run, IsDigit)) > MaxStrDigits
    THEN [ok |-> FALSE, why |-> "too long",
          digits |-> Len(SelectSeq(run, IsDigit))]
    ELSE IF SkipWhitespace(cs, e) <= Len(cs) THEN [ok |-> FALSE, why |-> "invalid"]
    ELSE [ok |-> TRUE, n |-> IF negative THEN 0 - RunValue(run) ELSE RunValue(run)]

\* int() from the position b of the run of digits.
ParseRun(cs, negative, b) ==
    ParseTail(cs, negative, SubSeq(cs, b, RunEnd(cs, b) - 1), RunEnd(cs, b))

\* int() from the position first after the leading whitespace: an optional
\* sign, then the run.
ParseSigned(cs, first) ==
    IF first <= Len(cs) /\ cs[first] \in {43, 45}
    THEN ParseRun(cs, cs[first] = 45, first + 1)
    ELSE ParseRun(cs, FALSE, first)

\* int(s) for a str, as CPython scans it: leading whitespace, an optional
\* sign, the run of digits and underscores, trailing whitespace.  The
\* result is a number, "invalid" or "too long" with the digits counted.
ParseInt(cs) == ParseSigned(cs, SkipWhitespace(cs, 1))

\* What repr() writes for the character c between the quotes q.
ReprChar(c, q) ==
    CASE c = 92 -> <<92, 92>>
      [] c = 9 -> <<92, 116>>
      [] c = 10 -> <<92, 110>>
      [] c = 13 -> <<92, 114>>
      [] c = q -> <<92, c>>
      [] OTHER ->
           IF IsPrintable(c) THEN <<c>>
           ELSE IF c < 256 THEN <<92, 120>> \o HexChars(c, 2)
           ELSE IF c < 65536 THEN <<92, 117>> \o HexChars(c, 4)
           ELSE <<92, 85>> \o HexChars(c, 8)

RECURSIVE ReprBody(_, _)
\* The characters of repr(s) between its quotes; q is the quote in use.
ReprBody(cs, q) ==
    IF cs = <<>> THEN <<>>
    ELSE IF Len(cs) = 1 THEN ReprChar(cs[1], q)
    ELSE LET h == Len(cs) \div 2
         IN  ReprBody(SubSeq(cs, 1, h), q) \o ReprBody(SubSeq(cs, h + 1, Len(cs)), q)

Contains(cs, c) == \E i \in 1..Len(cs) : cs[i] = c

\* repr(s) of a str: single quotes, double ones when s has only single ones.
Repr(cs) ==
    LET q == IF Contains(cs, 39) /\ ~Contains(cs, 34) THEN 34 ELSE 39
    IN  <<q>> \o ReprBody(cs, q) \o <<q>>

\* Each exception class with a class it derives from: the built-in classes
\* of Python 3.11, json's JSONDecodeError and botocore's ClientError,
\* NoCredentialsError and their kin.
Superclasses ==
    { <<"BaseException", "object">>,
      <<"BaseExceptionGroup", "BaseException">>,
      <<"ExceptionGroup", "BaseExceptionGroup">>,
      <<"Exception", "BaseException">>,
      <<"ArithmeticError", "Exception">>,
      <<"FloatingPointError", "ArithmeticError">>,
      <<"OverflowError", "ArithmeticError">>,
      <<"ZeroDivisionError", "ArithmeticError">>,
      <<"AssertionError", "Exception">>,
      <<"AttributeError", "Exception">>,
      <<"BufferError", "Exception">>,
      <<"EOFError", "Exception">>,
      <<"ExceptionGroup", "Exception">>,
      <<"ImportError", "Exception">>,
      <<"ModuleNotFoundError", "ImportError">>,
      <<"LookupError", "Exception">>,
      <<"IndexError", "LookupError">>,
      <<"KeyError", "LookupError">>,
      <<"MemoryError", "Exception">>,
      <<"NameError", "Exception">>,
      <<"UnboundLocalError", "NameError">>,
      <<"OSError", "Exception">>,
      <<"BlockingIOError", "OSError">>,
      <<"ChildProcessError", "OSError">>,
      <<"ConnectionError", "OSError">>,
      <<"BrokenPipeError", "ConnectionError">>,
      <<"ConnectionAbortedError", "ConnectionError">>,
      <<"ConnectionRefusedError", "ConnectionError">>,
      <<"ConnectionResetError", "ConnectionError">>,
      <<"FileExistsError", "OSError">>,
      <<"FileNotFoundError", "OSError">>,
      <<"InterruptedError", "OSError">>,
      <<"IsADirectoryError", "OSError">>,
      <<"NotADirectoryError", "OSError">>,
      <<"PermissionError", "OSError">>,
      <<"ProcessLookupError", "OSError">>,
      <<"TimeoutError", "OSError">>,
      <<"ReferenceError", "Exception">>,
      <<"RuntimeError", "Exception">>,
      <<"NotImplementedError", "RuntimeError">>,
      <<"RecursionError", "RuntimeError">>,
      <<"StopAsyncIteration", "Exception">>,
      <<"StopIteration", "Exception">>,
      <<"SyntaxError", "Exception">>,
      <<"IndentationError", "SyntaxError">>,
      <<"TabError", "IndentationError">>,
      <<"SystemError", "Exception">>,
      <<"TypeError", "Exception">>,
      <<"ValueError", "Exception">>,
      <<"JSONDecodeError", "ValueError">>,
      <<"UnicodeError", "ValueError">>,
      <<"UnicodeDecodeError", "UnicodeError">>,
      <<"UnicodeEncodeError", "UnicodeError">>,
      <<"UnicodeTranslateError", "UnicodeError">>,
      <<"Warning", "Exception">>,
      <<"BytesWarning", "Warning">>,
      <<"DeprecationWarning", "Warning">>,
      <<"EncodingWarning", "Warning">>,
      <<"FutureWarning", "Warning">>,
      <<"ImportWarning", "Warning">>,
      <<"PendingDeprecationWarning", "Warning">>,
      <<"ResourceWarning", "Warning">>,
      <<"RuntimeWarning", "Warning">>,
      <<"SyntaxWarning", "Warning">>,
      <<"UnicodeWarning", "Warning">>,
      <<"UserWarning", "Warning">>,
      <<"GeneratorExit", "BaseException">>,
      <<"KeyboardInterrupt", "BaseException">>,
      <<"SystemExit", "BaseException">>,
      <<"ClientError", "Exception">>,
      <<"BotoCoreError", "Exception">>,
      <<"NoCredentialsError", "BotoCoreError">>,
      <<"PartialCredentialsError", "BotoCoreError">>,
      <<"ParamValidationError", "BotoCoreError">> }

\* The classes of the table.
ClassNames == {"object"} \cup {p[1] : p \in Superclasses}

\* The module that defines a class of the table.
ModuleOf(name) ==
    IF name \in {"ClientError", "BotoCoreError", "NoCredentialsError",
                 "PartialCredentialsError", "ParamValidationError"}
    THEN "botocore.exceptions"
    ELSE IF name = "JSONDecodeError" THEN "json.decoder"
    ELSE "builtins"

RECURSIVE Class(_)
\* The class the table has under a name, with the classes it derives from.
\* A name outside the table names no class.
Class(name) ==
    LET known == CHOOSE n \in ClassNames : n = name
    IN  [name |-> known,
         module |-> ModuleOf(known),
         bases |-> {Class(p[2]) : p \in {q \in Superclasses : q[1] = known}}]

\* A class defined elsewhere, `class name(*parents)` in module.  A class is
\* told from another by its module, its name and its parents: one that
\* shares only the name of a class of the table is a different class.
Subclass(module, name, parents) ==
    [name |-> name, module |-> module, bases |-> parents]

RECURSIVE Bases(_)
\* The classes of cls.__mro__: cls and every class it derives from.
Bases(cls) == {cls} \cup UNION {Bases(b) : b \in cls.bases}

\* An exception of class cls whose str() is msg.
Exc(cls, msg) == [cls |-> cls, msg |-> msg]

\* isinstance(exc, cls), the test of an except clause.
IsInstance(exc, cls) == cls \in Bases(exc.cls)

\* A dict error_response of botocore: response['Error'] with its 'Code' and
\* 'Message'.  A key that is missing is Absent, or no field of the record.
ErrorResponse(code, message) ==
    [t |-> "dict",
     Error |-> [t |-> "dict", Code |-> code, Message |-> message]]

\* botocore's ClientError(error_response, operation_name): e.response is
\* the error_response it was built with.  The handler never takes its str().
ClientError(error_response) ==
    [cls |-> Class("ClientError"), response |-> error_response]

\* The name Python gives the type of v in a message.
TypeName(v) ==
    IF v.t = "None" THEN "NoneType"
    ELSE IF v.t = "datetime" THEN "datetime.datetime"
    ELSE v.t

\* The ValueError of an int() that rejects the text cs; '%.200R' puts the
\* first characters of the repr in the message.
InvalidLiteral(cs) ==
    Exc(Class("ValueError"),
        Text(Codes("invalid literal for int() with base 10: ")
             \o Take(Repr(cs), MaxReprChars)))

\* The ValueError of an int() on a text of too many digits.
TooManyDigits(digits) ==
    Exc(Class("ValueError"),
        Str("Exceeds the limit (" \o ToString(MaxStrDigits)
            \o " digits) for integer string conversion: value has "
            \o ToString(digits)
            \o " digits; use sys.set_int_max_str_digits() to increase the limit"))

\* int(s) of a str from what the scan p of its text found.
IntOfStr(cs, p) ==
    IF p.ok THEN p
    ELSE IF p.why = "too long" THEN [ok |-> FALSE, exc |-> TooManyDigits(p.digits)]
    ELSE [ok |-> FALSE, exc |-> InvalidLiteral(cs)]

\* int(v): the number, or the exception int() raises.
ToInt(v) ==
    CASE v.t = "int" -> [ok |-> TRUE, n |-> v.n]
      [] v.t = "bool" -> [ok |-> TRUE, n |-> IF v.b THEN 1 ELSE 0]
      [] v.t = "float" ->
           [ok |-> TRUE,
            n |-> IF v.hundredths < 0 THEN 0 - ((0 - v.hundredths) \div 100)
                  ELSE v.hundredths \div 100]
      [] v.t = "str" -> IntOfStr(v.chars, ParseInt(v.chars))
      [] OTHER ->
           [ok |-> FALSE,
            exc |-> Exc(Class("TypeError"),
                        Str("int() argument must be a string, a bytes-like object or a real number, not '"
                            \o TypeName(v) \o "'"))]

----------------------------------------------------------------------------
(* json.dumps (line 211) and isoformat *)

\* What json.dumps writes for the character c of a string (ensure_ascii).
JsonChar(c) ==
    CASE c = 34 -> <<92, 34>>
      [] c = 92 -> <<92, 92>>
      [] c = 10 -> <<92, 110>>
      [] c = 13 -> <<92, 114>>
      [] c = 9 -> <<92, 116>>
      [] c = 12 -> <<92, 102>>
      [] c = 8 -> <<92, 98>>
      [] OTHER ->
           IF 32 <= c /\ c < 127 THEN <<c>>
           ELSE IF c < 65536 THEN <<92, 117>> \o HexChars(c, 4)
           ELSE <<92, 117>> \o HexChars(55296 + ((c - 65536) \div 1024), 4)
                    \o <<92, 117>> \o HexChars(56320 + ((c - 65536) % 1024), 4)

RECURSIVE JsonChars(_)
\* The JSON string body of a text.
JsonChars(cs) ==
    IF cs = <<>> THEN <<>>
    ELSE IF Len(cs) = 1 THEN JsonChar(cs[1])
    ELSE LET h == Len(cs) \div 2
         IN  JsonChars(SubSeq(cs, 1, h)) \o JsonChars(SubSeq(cs, h + 1, Len(cs)))

\* The JSON string of a text, between its quotes.
JsonString(cs) == <<34>> \o JsonChars(cs) \o <<34>>

\* repr of the float h / 100.
JsonFloat(h) ==
    ToString(h \div 100) \o "."
        \o (IF h % 10 = 0 THEN ToString((h % 100) \div 10) ELSE Pad2(h % 100))

\* datetime.isoformat(sep): the microseconds only when non-zero, the offset
\* only for an aware datetime.
IsoFormat(d, sep) ==
    Pad4(d.year) \o "-" \o Pad2(d.month) \o "-" \o Pad2(d.day) \o sep
        \o Pad2(d.hour) \o ":" \o Pad2(d.minute) \o ":" \o Pad2(d.second)
        \o (IF d.microsecond # 0 THEN "." \o Pad6(d.microsecond) ELSE "")
        \o (IF d.utc THEN "+00:00" ELSE "")

\* datetime.isoformat().
isoformat(d) == IsoFormat(d, "T")

RECURSIVE JsonValue(_), JsonList(_), JsonPairs(_)
\* json.dumps of a value, as code points; a datetime, which json cannot
\* encode, goes through default=str.
JsonValue(v) ==
    CASE v.t = "None" -> Codes("null")
      [] v.t = "bool" -> IF v.b THEN Codes("true") ELSE Codes("false")
      [] v.t = "int" -> Codes(ToString(v.n))
      [] v.t = "float" -> Codes(JsonFloat(v.hundredths))
      [] v.t = "str" -> JsonString(v.chars)
      [] v.t = "list" -> <<91>> \o JsonList(v.items) \o <<93>>
      [] v.t = "dict" -> <<123>> \o JsonPairs(v.items) \o <<125>>
      [] v.t = "datetime" -> JsonString(Codes(IsoFormat(v, " ")))

\* The items of a JSON list, separated by ", ".
JsonList(xs) ==
    IF xs = <<>> THEN <<>>
    ELSE IF Len(xs) = 1 THEN JsonValue(xs[1])
    ELSE LET h == Len(xs) \div 2
         IN  JsonList(SubSeq(xs, 1, h)) \o <<44, 32>>
                 \o JsonList(SubSeq(xs, h + 1, Len(xs)))

\* The "key": value pairs of a JSON object, in insertion order.
JsonPairs(xs) ==
    IF xs = <<>> THEN <<>>
    ELSE IF Len(xs) = 1
    THEN JsonString(Codes(xs[1].k)) \o <<58, 32>> \o JsonValue(xs[1].v)
    ELSE LET h == Len(xs) \div 2
         IN  JsonPairs(SubSeq(xs, 1, h)) \o <<44, 32>>
                 \o JsonPairs(SubSeq(xs, h + 1, Len(xs)))

\* json.dumps(body, default=str).
json_dumps(body) == JsonValue(body)

\* round(total / (1024 * 1024), 2), in hundredths: the quotient is exact in
\* binary floating point, so round() rounds the true value, ties to even.
RoundMb(total) ==
    LET whole == total \div (1024 * 1024)
        part == (total % (1024 * 1024)) * 100
        q == part \div (1024 * 1024)
        r == part % (1024 * 1024)
    IN  whole * 100
            + (IF 2 * r > 1024 * 1024 THEN q + 1
               ELSE IF 2 * r < 1024 * 1024 THEN q
               ELSE IF q % 2 = 0 THEN q ELSE q + 1)

----------------------------------------------------------------------------
(* create_response: lines 185-214 *)

default_headers ==
    ("Content-Type" :> "application/json")
        @@ ("Access-Control-Allow-Origin" :> "*")
        @@ ("Access-Control-Allow-Headers" :>
                "Content-Type,X-Amz-Date,Authorization,X-Api-Key,X-Amz-Security-Token")
        @@ ("Access-Control-Allow-Methods" :> "GET,OPTIONS")

\* headers=None, and the empty dict, which `if headers` treats alike.
NoHeaders == <<>>

create_response(status_code, body, headers) ==
    [statusCode |-> status_code,
     headers |-> IF DOMAIN headers # {}
                 THEN headers @@ default_headers
                 ELSE default_headers,
     body |-> json_dumps(body)]

----------------------------------------------------------------------------
(* list_bucket_objects: lines 104-182 *)

\* The keyword arguments of list_objects_v2 (lines 119-125).
BuildListParams(bucket_name, prefix, max_keys) ==
    [Bucket |-> bucket_name,
     MaxKeys |-> max_keys,
     Prefix |-> IF Truthy(prefix) THEN prefix ELSE Absent]

\* object_info of one raw entry (lines 137-152).
ObjectInfo(obj) ==
    PyDict(<<Item("key", obj.Key),
             Item("size", PyInt(obj.Size)),
             Item("last_modified", Str(isoformat(obj.LastModified))),
             Item("etag", Text(Strip(obj.ETag.chars, {34}))),
             Item("storage_class", Get(obj, "StorageClass", Str("STANDARD")))>>
           \o (IF obj.Owner # Absent
               THEN <<Item("owner",
                           PyDict(<<Item("id", Get(obj.Owner, "ID", PyNone)),
                                    Item("display_name",
                                         Get(obj.Owner, "DisplayName", PyNone))>>))>>
               ELSE <<>>))

\* Accumulate with `total_size = obj['Size']` for `+=`.
AccumulateLastSize(acc, obj) ==
    [objects |-> Append(acc.objects, ObjectInfo(obj)),
     total_size |-> obj.Size]

\* One pass of the loop body (lines 154-155).
Accumulate(acc, obj) ==
    [objects |-> Append(acc.objects, ObjectInfo(obj)),
     total_size |-> acc.total_size + obj.Size]

RECURSIVE ProcessContents(_, _)
\* The loop over response['Contents'] (lines 135-155), from accumulator acc.
ProcessContents(contents, acc) ==
    IF contents = <<>> THEN acc
    ELSE ProcessContents(Tail(contents), Accumulate(acc, Head(contents)))

\* ContinuationToken that copies the token whenever the page carries one.
ContinuationTokenWhenGiven(page) == Get(page, "NextContinuationToken", Absent)

\* The continuation token of the result (lines 170-171): set when the page
\* is truncated, to None when the page carries no token.
ContinuationToken(page) ==
    IF Truthy(Get(page, "IsTruncated", PyNone))
    THEN Get(page, "NextContinuationToken", PyNone)
    ELSE Absent

\* The result dict (lines 158-176) from the objects and total size acc of
\* the loop.
ResultOf(bucket_name, prefix, page, now, acc) ==
    PyDict(<<Item("bucket_name", bucket_name),
             Item("prefix", prefix),
             Item("object_count", PyInt(Len(acc.objects))),
             Item("total_size_bytes", PyInt(acc.total_size)),
             Item("total_size_mb", PyFloat(RoundMb(acc.total_size))),
             Item("is_truncated", Get(page, "IsTruncated", PyBool(FALSE))),
             Item("objects", List(acc.objects)),
             Item("timestamp", Str(isoformat(now) \o "Z"))>>
           \o (IF ContinuationToken(page) # Absent
               THEN <<Item("next_continuation_token", ContinuationToken(page))>>
               ELSE <<>>)
           \o (IF page.CommonPrefixes # Absent
               THEN <<Item("common_prefixes",
                           List([i \in 1..Len(page.CommonPrefixes.items) |->
                                    page.CommonPrefixes.items[i].Prefix]))>>
               ELSE <<>>))

\* The result dict (lines 131-178) for the raw page at time now.
BuildResult(bucket_name, prefix, page, now) ==
    ResultOf(bucket_name, prefix, page, now,
             IF page.Contents # Absent
             THEN ProcessContents(page.Contents.items,
                                  [objects |-> <<>>, total_size |-> 0])
             ELSE [objects |-> <<>>, total_size |-> 0])

\* CallsAgainAfterPage of a lister that follows the continuation token.
CallsAgainWhenTruncated(page) == Truthy(Get(page, "IsTruncated", PyNone))

\* Whether list_bucket_objects calls list_objects_v2 again after a page: it
\* makes the one call of line 128 and returns.
CallsAgainAfterPage(page) == FALSE

\* Whether the call is repeated after the backend raised: the except clause
\* of lines 180-182 logs and re-raises.
CallsAgainAfterError(exc) == FALSE

----------------------------------------------------------------------------
(* lambda_handler: lines 16-101 *)

Return(status_code, body) ==
    [t |-> "return", status_code |-> status_code, body |-> body]

Raise(exc) == [t |-> "raise", exc |-> exc]

\* An error body of the handler.
ErrorDict(error, message) ==
    PyDict(<<Item("error", error), Item("message", message)>>)

\* Clamp without the limit: the parsed value goes through unchanged.
ClampMissing(max_keys) == max_keys

\* The AWS limit of lines 47-48.
Clamp(max_keys) == IF max_keys > 1000 THEN 1000 ELSE max_keys

\* BucketConfigured that tests `bucket_name is not None`: the empty name
\* counts as configured.
BucketConfiguredUnlessNone(bucket_name) == bucket_name # PyNone

\* `not bucket_name` of line 34 is false.
BucketConfigured(bucket_name) == Truthy(bucket_name)

\* QueryParams without the `or {}`: a null or missing mapping stays None.
QueryParamsWithoutDefault(ev) == Get(ev, "queryStringParameters", PyNone)

\* event.get('queryStringParameters') or {} (line 42).
QueryParams(ev) ==
    LET qsp == Get(ev, "queryStringParameters", PyNone)
    IN  IF Truthy(qsp) THEN qsp
        ELSE [t |-> "dict", prefix |-> Absent, max_keys |-> Absent]

\* query_params.get('prefix', '') (line 43).
PrefixOf(query_params) == Get(query_params, "prefix", Str(""))

\* query_params.get('max_keys', 100) (line 44), before int().
MaxKeysOf(query_params) == Get(query_params, "max_keys", PyInt(100))

\* The AttributeError of v.get on a value that is no dict.
NoAttributeGet(v) ==
    Exc(Class("AttributeError"),
        Str("'" \o TypeName(v) \o "' object has no attribute 'get'"))

\* Lines 44-54: int() raises, or list_bucket_objects is called with the
\* clamped number.
CallWith(bucket_name, prefix, parsed) ==
    IF ~parsed.ok THEN Raise(parsed.exc)
    ELSE [t |-> "call",
          bucket_name |-> bucket_name,
          prefix |-> prefix,
          max_keys |-> Clamp(parsed.n)]

\* Lines 42-54: the handler with the bucket name, up to its call of
\* list_bucket_objects.
ReadQuery(bucket_name, ev) ==
    IF ev.t # "dict" THEN Raise(NoAttributeGet(ev))
    ELSE IF QueryParams(ev).t # "dict" THEN Raise(NoAttributeGet(QueryParams(ev)))
    ELSE CallWith(bucket_name, PrefixOf(QueryParams(ev)),
                  ToInt(MaxKeysOf(QueryParams(ev))))

\* Lines 32-54: the handler up to its call of list_bucket_objects.  It
\* returns early, raises, or calls with (bucket_name, prefix, max_keys).
Prepare(environ, ev) ==
    IF ~BucketConfigured(Get(environ, "BUCKET_NAME", PyNone))
    THEN Return(500, ErrorDict(Str("Internal server error"),
                               Str("Bucket name not configured")))
    ELSE ReadQuery(Get(environ, "BUCKET_NAME", PyNone), ev)

\* Lines 66-80: the answer to a ClientError by its error_code.
OnErrorCode(error_code) ==
    IF error_code = Str("NoSuchBucket")
    THEN Return(404, ErrorDict(Str("Bucket not found"),
                               Str("The specified bucket does not exist")))
    ELSE IF error_code = Str("AccessDenied")
    THEN Return(403, ErrorDict(Str("Access denied"),
                               Str("Insufficient permissions to access the bucket")))
    ELSE Return(500, ErrorDict(Str("AWS service error"),
                               Str("An error occurred while accessing AWS services")))

\* The KeyError of d[key] on a dict without the key; its str() is repr(key).
KeyError(key) == Exc(Class("KeyError"), Text(Repr(Codes(key))))

\* The TypeError of v[key] on a value that is no dict.
NotSubscriptable(v) ==
    Exc(Class("TypeError"),
        IF v.t = "str" THEN Str("string indices must be integers, not 'str'")
        ELSE IF v.t = "list"
        THEN Str("list indices must be integers or slices, not str")
        ELSE Str("'" \o TypeName(v) \o "' object is not subscriptable"))

\* v[key] with a str key: the value, or the exception the subscript raises.
GetItem(v, key) ==
    IF v.t # "dict" THEN [ok |-> FALSE, exc |-> NotSubscriptable(v)]
    ELSE IF key \notin DOMAIN v THEN [ok |-> FALSE, exc |-> KeyError(key)]
    ELSE IF v[key] = Absent THEN [ok |-> FALSE, exc |-> KeyError(key)]
    ELSE [ok |-> TRUE, v |-> v[key]]

\* Line 62 and on: error_message is read from error, then the code decides.
ReadMessage(error_code, message) ==
    IF ~message.ok THEN Raise(message.exc) ELSE OnErrorCode(error_code)

\* Lines 61-62 with error, the value of e.response['Error'].
ReadCode(error, code) ==
    IF ~code.ok THEN Raise(code.exc)
    ELSE ReadMessage(code.v, GetItem(error, "Message"))

\* Line 61 with error, the outcome of e.response['Error'].
ReadError(error) ==
    IF ~error.ok THEN Raise(error.exc)
    ELSE ReadCode(error.v, GetItem(error.v, "Code"))

\* The AttributeError of e.response on an exception without the attribute.
NoAttributeResponse(e) ==
    Exc(Class("AttributeError"),
        Str("'" \o e.cls.name \o "' object has no attribute 'response'"))

\* The except ClientError clause (lines 60-80).  Lines 61-62 read
\* e.response['Error']['Code'] and e.response['Error']['Message']; an
\* exception of these reads is raised inside the clause, where no later
\* clause catches it, and leaves the handler.
OnClientError(e) ==
    IF "response" \notin DOMAIN e THEN Raise(NoAttributeResponse(e))
    ELSE ReadError(GetItem(e.response, "Error"))

\* The except clauses of lines 60-101, tried in order.
Handle(e) ==
    IF IsInstance(e, Class("ClientError")) THEN OnClientError(e)
    ELSE IF IsInstance(e, Class("NoCredentialsError"))
    THEN Return(500, ErrorDict(Str("Internal server error"),
                               Str("AWS credentials not configured")))
    ELSE IF IsInstance(e, Class("ValueError"))
    THEN Return(400, ErrorDict(Str("Invalid request"), e.msg))
    ELSE IF IsInstance(e, Class("Exception"))
    THEN Return(500, ErrorDict(Str("Internal server error"),
                               Str("An unexpected error occurred")))
    ELSE Raise(e)

----------------------------------------------------------------------------
(* The inputs *)

NoValue == [t |-> "none"]

BucketNames == {Absent, Str(""), Str("test-bucket")}

\* A text of n times the character c.
Repeat(c, n) == [i \in 1..n |-> c]

\* The max_keys texts of the requests: numbers, numbers int() accepts in
\* other spellings (sign, blanks, underscore, Arabic-Indic digits, form
\* feed, no-break space), and texts int() rejects.
MaxKeysTexts ==
    {Codes(s) : s \in {"1", "100", "999", "1000", "1001", "2000",
                       "0", "-5", "+3", " 7 ", "1_0", "007",
                       "", " ", "abc", "1.5", "10x", "-", "_1", "1__0",
                       "+ 3", "it's"}}
        \cup { <<1633, 1634>>, <<12, 55, 12>>, <<160, 55>>,
               <<233>>, <<49, 127>>, <<34, 39, 128512>>,
               Repeat(120, LongText), Repeat(49, ManyDigits) }

MaxKeysValues ==
    {Absent, PyNone, PyInt(50), PyInt(1500)} \cup {Text(cs) : cs \in MaxKeysTexts}

PrefixValues == {Absent, Str(""), Str("docs/")}

QueryMappings ==
    {[t |-> "dict", prefix |-> p, max_keys |-> m] :
        p \in PrefixValues, m \in MaxKeysValues}

Events ==
    {PyNone, List(<<>>)}
        \cup {[t |-> "dict", queryStringParameters |-> q] :
                 q \in {Absent, PyNone, Str("x")} \cup QueryMappings}

\* A datetime with tzinfo UTC, as botocore parses LastModified.
Aware(y, mo, d, h, mi, s) ==
    [t |-> "datetime", year |-> y, month |-> mo, day |-> d, hour |-> h,
     minute |-> mi, second |-> s, microsecond |-> 0, utc |-> TRUE]

\* datetime.utcnow(): naive, with microseconds.
Clock ==
    {[t |-> "datetime", year |-> 2024, month |-> 1, day |-> 15, hour |-> 10,
      minute |-> 30, second |-> 0, microsecond |-> 123456, utc |-> FALSE],
     [t |-> "datetime", year |-> 2025, month |-> 12, day |-> 31, hour |-> 23,
      minute |-> 59, second |-> 59, microsecond |-> 0, utc |-> FALSE]}

RawObjects ==
    {[Key |-> Str("docs/file1.txt"), Size |-> 8,
      LastModified |-> Aware(2024, 1, 15, 10, 30, 0),
      ETag |-> Str("\"a1\""),
      StorageClass |-> Absent, Owner |-> Absent],
     [Key |-> Str("images/file2.jpg"), Size |-> 131072,
      LastModified |-> Aware(2023, 11, 2, 8, 5, 9),
      ETag |-> Str("b2"),
      StorageClass |-> Str("GLACIER"),
      Owner |-> [ID |-> Str("owner-1"), DisplayName |-> Absent]],
     [Key |-> Str("my \"file\".txt"), Size |-> 1441792,
      LastModified |-> Aware(2022, 2, 28, 0, 0, 0),
      ETag |-> Str("\"\"c3\""),
      StorageClass |-> Str("STANDARD"),
      Owner |-> [ID |-> Str("owner-2"),
                 DisplayName |-> Text(<<97, 108, 105, 99, 233>>)]]}

ContentsLists ==
    UNION {[1..n -> RawObjects] : n \in 0..MaxObjects}

\* The pages list_objects_v2 can return.
Pages ==
    {[Contents |-> c, IsTruncated |-> tr, NextContinuationToken |-> tok,
      CommonPrefixes |-> cp] :
        c \in {Absent} \cup {List(xs) : xs \in ContentsLists},
        tr \in {Absent, PyBool(TRUE), PyBool(FALSE)},
        tok \in {Absent, Str("token-1")},
        cp \in {Absent, List(<<[Prefix |-> Str("docs/")]>>)}}

\* The exceptions list_objects_v2 can raise.  botocore's: a ClientError
\* whose response carries Error.Code and Error.Message, one without the
\* message, one without the code and one without 'Error', then
\* NoCredentialsError, ParamValidationError and EndpointConnectionError.
\* Ones of other classes: the ConnectionError and the socket.gaierror of the
\* network, three ValueErrors, binascii's Error among them, and a
\* KeyboardInterrupt, which does not derive from Exception.
BackendErrors ==
    {ClientError(ErrorResponse(Str(c), Str("backend message"))) :
        c \in {"NoSuchBucket", "AccessDenied", "InternalError"}}
        \cup {ClientError(ErrorResponse(Str("AccessDenied"), Absent)),
              ClientError(ErrorResponse(Absent, Str("backend message"))),
              ClientError([t |-> "dict", Error |-> Absent]),
              Exc(Class("NoCredentialsError"), Str("Unable to locate credentials")),
              Exc(Class("ParamValidationError"), Str("Parameter validation failed")),
              Exc(Subclass("botocore.exceptions", "EndpointConnectionError",
                           {Subclass("botocore.exceptions", "ConnectionError",
                                     {Class("BotoCoreError")})}),
                  Str("Could not connect to the endpoint URL")),
              Exc(Class("ConnectionError"), Str("Connection reset by peer")),
              Exc(Subclass("socket", "gaierror", {Class("OSError")}),
                  Str("[Errno -2] Name or service not known")),
              Exc(Class("ValueError"), Str("bad value")),
              Exc(Class("JSONDecodeError"),
                  Str("Expecting value: line 1 column 1 (char 0)")),
              Exc(Subclass("binascii", "Error", {Class("ValueError")}),
                  Str("Incorrect padding")),
              Exc(Class("KeyboardInterrupt"), Str(""))}

----------------------------------------------------------------------------
(* The invocation *)

Init ==
    /\ env \in {[BUCKET_NAME |-> b] : b \in BucketNames}
    /\ pc = "idle"
    /\ event = NoValue
    /\ args = NoValue
    /\ list_params = NoValue
    /\ calls = 0
    /\ raw = NoValue
    /\ response = NoValue
    /\ payload = NoValue
    /\ raised = NoValue

\* The handler ends with outcome out: a create_response, or an exception
\* that no except clause caught.
Finish(out) ==
    /\ pc' = "done"
    /\ IF out.t = "return"
       THEN /\ response' = create_response(out.status_code, out.body, NoHeaders)
            /\ payload' = out.body
            /\ raised' = NoValue
       ELSE /\ response' = NoValue
            /\ payload' = NoValue
            /\ raised' = out.exc

\* The handler after step, the outcome of Prepare: it enters the backend
\* call, or ends.
Proceed(step) ==
    IF step.t = "call"
    THEN /\ args' = [bucket_name |-> step.bucket_name,
                     prefix |-> step.prefix,
                     max_keys |-> step.max_keys]
         /\ list_params' = BuildListParams(step.bucket_name, step.prefix,
                                           step.max_keys)
         /\ calls' = 1
         /\ pc' = "calling"
         /\ response' = NoValue
         /\ payload' = NoValue
         /\ raised' = NoValue
    ELSE /\ args' = NoValue
         /\ list_params' = NoValue
         /\ calls' = 0
         /\ Finish(IF step.t = "raise" THEN Handle(step.exc) ELSE step)

\* lambda_handler(ev, context) up to the backend call, or to its return.
\* The logging of line 29 serialises the event before the try block; for an
\* event decoded from JSON, as the ones of Events are, it cannot fail.
Invoke(ev) ==
    /\ pc = "idle"
    /\ event' = ev
    /\ raw' = NoValue
    /\ UNCHANGED env
    /\ Proceed(Prepare(env, ev))

\* list_objects_v2 returns page; the handler builds the result and returns.
BackendReturns(page, now) ==
    /\ pc = "calling"
    /\ raw' = [t |-> "page", page |-> page]
    /\ UNCHANGED <<env, event, args, list_params>>
    /\ IF CallsAgainAfterPage(page) /\ calls < MaxCalls
       THEN /\ calls' = calls + 1
            /\ UNCHANGED <<pc, response, payload, raised>>
       ELSE /\ calls' = calls
            /\ Finish(Return(200, BuildResult(args.bucket_name, args.prefix,
                                              page, now)))

\* list_objects_v2 raises exc; the handler maps it to a response.
BackendRaises(exc) ==
    /\ pc = "calling"
    /\ raw' = [t |-> "error", exc |-> exc]
    /\ UNCHANGED <<env, event, args, list_params>>
    /\ IF CallsAgainAfterError(exc) /\ calls < MaxCalls
       THEN /\ calls' = calls + 1
            /\ UNCHANGED <<pc, response, payload, raised>>
       ELSE /\ calls' = calls
            /\ Finish(Handle(exc))

\* The invocation is over: nothing of it is kept for the next one but the
\* process-wide configuration.
Recycle ==
    /\ pc = "done"
    /\ pc' = "idle"
    /\ event' = NoValue
    /\ args' = NoValue
    /\ list_params' = NoValue
    /\ calls' = 0
    /\ raw' = NoValue
    /\ response' = NoValue
    /\ payload' = NoValue
    /\ raised' = NoValue
    /\ UNCHANGED env

Next ==
    \/ \E ev \in Events : Invoke(ev)
    \/ \E page \in Pages, now \in Clock : BackendReturns(page, now)
    \/ \E exc \in BackendErrors : BackendRaises(exc)
    \/ Recycle

Spec == Init /\ [][Next]_vars

----------------------------------------------------------------------------
(* What the claims speak of *)

\* BUCKET_NAME is set to a non-empty name.
Configured == env.BUCKET_NAME \notin {Absent, Str("")}

\* The request carries a mapping of query parameters.
HasMapping ==
    /\ event.t = "dict"
    /\ event.queryStringParameters.t = "dict"

\* The request carries no query parameters: the key is missing or null.
NoQuery ==
    /\ event.t = "dict"
    /\ event.queryStringParameters \in {Absent, PyNone}

\* The max_keys value of the request, Absent when it has none.
GivenMaxKeys ==
    IF HasMapping THEN event.queryStringParameters.max_keys ELSE Absent

GivenPrefix ==
    IF HasMapping THEN event.queryStringParameters.prefix ELSE Absent

\* The request has a max_keys value and int() accepts it.
MaxKeysParses == GivenMaxKeys # Absent /\ ToInt(GivenMaxKeys).ok

\* The request has a max_keys value and int() rejects it.
MaxKeysMalformed == GivenMaxKeys # Absent /\ ~ToInt(GivenMaxKeys).ok

\* The integer its max_keys value parses as.
GivenNumber == ToInt(GivenMaxKeys).n

Invoked == pc \in {"calling", "done"}

BackendSucceeded == pc = "done" /\ raw # NoValue /\ raw.t = "page"

BackendFailed == pc = "done" /\ raw # NoValue /\ raw.t = "error"

\* The backend raised a ClientError.
IsClientError(e) == IsInstance(e, Class("ClientError"))

\* The error code of a ClientError, Absent when its response has none.
ErrorCode(e) ==
    IF e.response.Error = Absent THEN Absent ELSE e.response.Error.Code

\* The invocation ended with a response.
Answered == raised = NoValue /\ response # NoValue

\* The result dict or error dict the handler answered with has the key k.
Has(k) == HasKey(payload, k)

\* Its value under the key k.
Field(k) == Lookup(payload, k)

\* The objects of the result.
Objects == Field("objects").items

----------------------------------------------------------------------------
(* The claims *)

\* C1: with BUCKET_NAME configured and a max_keys that parses as the integer
\* n, list_bucket_objects is called with max_keys n when n <= 1000 and with
\* exactly 1000 when n > 1000; a clamped request is answered 200 when the
\* backend succeeds.
C1_MaxKeysClamped ==
    (Invoked /\ Configured /\ MaxKeysParses) =>
        /\ args # NoValue
        /\ GivenNumber <= 1000 => args.max_keys = GivenNumber
        /\ GivenNumber > 1000 => args.max_keys = 1000
        /\ (GivenNumber > 1000 /\ BackendSucceeded) => response.statusCode = 200

C1_Witness ==
    /\ BackendSucceeded
    /\ Configured
    /\ GivenMaxKeys = Str("2000")
    /\ args.max_keys = 1000
    /\ list_params.MaxKeys = 1000
    /\ response.statusCode = 200

\* C2: every invocation ends with an ApiResponse and no exception escapes:
\* the status is one of 200, 400, 403, 404, 500, the headers hold the content
\* type and the three CORS headers, and the body is a string of JSON.
C2_AlwaysResponds ==
    pc = "done" =>
        /\ raised = NoValue
        /\ response # NoValue
        /\ DOMAIN response = {"statusCode", "headers", "body"}
        /\ response.statusCode \in {200, 400, 403, 404, 500}
        /\ {"Content-Type", "Access-Control-Allow-Origin",
            "Access-Control-Allow-Headers", "Access-Control-Allow-Methods"}
               \subseteq DOMAIN response.headers
        /\ response.headers["Content-Type"] = "application/json"
        /\ response.headers["Access-Control-Allow-Origin"] = "*"
        /\ response.headers["Access-Control-Allow-Headers"] =
               "Content-Type,X-Amz-Date,Authorization,X-Api-Key,X-Amz-Security-Token"
        /\ response.headers["Access-Control-Allow-Methods"] = "GET,OPTIONS"
        /\ \A i \in 1..Len(response.body) : response.body[i] \in 32..126
        /\ response.body[1] = 123
        /\ response.body[Len(response.body)] = 125

\* C3: a failed backend call is answered by its category: ClientError
\* NoSuchBucket 404 "Bucket not found", ClientError AccessDenied 403 "Access
\* denied", any other ClientError 500 "AWS service error", NoCredentialsError
\* 500 "Internal server error" / "AWS credentials not configured", any other
\* failure 500 with message "An unexpected error occurred".
C3_BackendErrorMapped ==
    BackendFailed =>
        LET e == raw.exc
        IN  /\ (IsClientError(e) /\ ErrorCode(e) = Str("NoSuchBucket")) =>
                   /\ Answered
                   /\ response.statusCode = 404
                   /\ Field("error") = Str("Bucket not found")
            /\ (IsClientError(e) /\ ErrorCode(e) = Str("AccessDenied")) =>
                   /\ Answered
                   /\ response.statusCode = 403
                   /\ Field("error") = Str("Access denied")
            /\ (IsClientError(e)
                /\ ErrorCode(e) \notin {Str("NoSuchBucket"), Str("AccessDenied")}) =>
                   /\ Answered
                   /\ response.statusCode = 500
                   /\ Field("error") = Str("AWS service error")
            /\ IsInstance(e, Class("NoCredentialsError")) =>
                   /\ Answered
                   /\ response.statusCode = 500
                   /\ payload = ErrorDict(Str("Internal server error"),
                                          Str("AWS credentials not configured"))
            /\ (~IsClientError(e) /\ ~IsInstance(e, Class("NoCredentialsError"))) =>
                   /\ Answered
                   /\ response.statusCode = 500
                   /\ Field("message") = Str("An unexpected error occurred")

\* C4: the max_keys handed to the Storage Lister is always in 1..1000, for
\* every max_keys that parses as an integer, zero and negatives included.
C4_MaxKeysInRange ==
    (Invoked /\ Configured /\ MaxKeysParses) =>
        /\ args # NoValue
        /\ args.max_keys \in 1..1000

\* C5: with BUCKET_NAME configured, a max_keys that is present and is not
\* parseable as an integer (text, a decimal, the empty string, null) is
\* answered 400 "Invalid request" with the parse error as message, and the
\* backend is not called.
C5_MalformedMaxKeysIs400 ==
    (Invoked /\ Configured /\ MaxKeysMalformed) =>
        /\ pc = "done"
        /\ calls = 0
        /\ response.statusCode = 400
        /\ Field("error") = Str("Invalid request")
        /\ Field("message") = ToInt(GivenMaxKeys).exc.msg

\* C6: with BUCKET_NAME absent or empty every request is answered 500
\* "Internal server error" / "Bucket name not configured", whatever its
\* query parameters, and the backend is not called.
C6_MissingBucketIs500 ==
    (Invoked /\ ~Configured) =>
        /\ pc = "done"
        /\ calls = 0
        /\ args = NoValue
        /\ raised = NoValue
        /\ response.statusCode = 500
        /\ payload = ErrorDict(Str("Internal server error"),
                             Str("Bucket name not configured"))
        /\ response.body =
               Codes("{\"error\": \"Internal server error\", \"message\": \"Bucket name not configured\"}")

C6_Witness ==
    /\ pc = "done"
    /\ env.BUCKET_NAME = Str("")
    /\ GivenMaxKeys = Str("abc")
    /\ response.statusCode = 500
    /\ Field("message") = Str("Bucket name not configured")

\* C7: when queryStringParameters is absent or null the Storage Lister is
\* called with prefix "" and max_keys 100; in a present mapping a missing
\* prefix is "" and a missing max_keys is 100.
C7_Defaults ==
    (Invoked /\ Configured) =>
        /\ NoQuery =>
               /\ args # NoValue
               /\ args.prefix = Str("")
               /\ args.max_keys = 100
               /\ list_params.MaxKeys = 100
               /\ list_params.Prefix = Absent
        /\ (HasMapping /\ GivenMaxKeys = Absent) =>
               /\ args # NoValue
               /\ args.max_keys = 100
        /\ (HasMapping /\ GivenPrefix = Absent /\ args # NoValue) =>
               args.prefix = Str("")

C7_Witness ==
    /\ pc = "done"
    /\ Configured
    /\ event = [t |-> "dict", queryStringParameters |-> PyNone]
    /\ args.prefix = Str("")
    /\ args.max_keys = 100
    /\ response.statusCode = 200

\* C8: an invocation calls the backend list operation at most once, and
\* exactly once when the bucket is configured and max_keys parses (or is
\* left out); a truncated page or a backend error brings no second call.
C8_OneBackendCall ==
    /\ calls <= 1
    /\ (Invoked /\ Configured /\ (NoQuery \/ (HasMapping /\ ~MaxKeysMalformed))) =>
           calls = 1
    /\ (BackendSucceeded \/ BackendFailed) => calls = 1

C8_Witness ==
    /\ BackendSucceeded
    /\ raw.page.IsTruncated = PyBool(TRUE)
    /\ raw.page.NextContinuationToken = Str("token-1")
    /\ Field("next_continuation_token") = Str("token-1")
    /\ calls = 1

\* C9: the result has the key next_continuation_token if and only if its
\* is_truncated is true, whatever page the backend returned.
C9_TokenIffTruncated ==
    BackendSucceeded =>
        (Has("next_continuation_token")
             <=> Field("is_truncated") = PyBool(TRUE))

C9_Witness ==
    /\ BackendSucceeded
    /\ raw.page.IsTruncated = PyBool(TRUE)
    /\ raw.page.NextContinuationToken = Absent
    /\ Field("is_truncated") = PyBool(TRUE)
    /\ Has("next_continuation_token")
    /\ Field("next_continuation_token") = PyNone

RECURSIVE SumOfSizes(_)
\* The sum of the size fields of a sequence of objects.
SumOfSizes(objects) ==
    IF objects = <<>> THEN 0
    ELSE Lookup(objects[Len(objects)], "size").n
             + SumOfSizes(SubSeq(objects, 1, Len(objects) - 1))

\* The raw entries of the page the backend returned.
RawEntries ==
    IF raw.page.Contents = Absent THEN <<>> ELSE raw.page.Contents.items

\* C10: in the result, object_count is the length of objects and
\* total_size_bytes is the sum of their sizes (0 and 0 for the empty page);
\* the objects are the backend's raw entries in their order.
C10_CountAndSize ==
    BackendSucceeded =>
        /\ Field("object_count") = PyInt(Len(Objects))
        /\ Field("total_size_bytes") = PyInt(SumOfSizes(Objects))
        /\ Len(Objects) = Len(RawEntries)
        /\ \A i \in 1..Len(RawEntries) :
               /\ Lookup(Objects[i], "key") = RawEntries[i].Key
               /\ Lookup(Objects[i], "size") = PyInt(RawEntries[i].Size)
        /\ RawEntries = <<>> =>
               /\ Field("object_count") = PyInt(0)
               /\ Field("total_size_bytes") = PyInt(0)

C10_Witness ==
    /\ BackendSucceeded
    /\ Len(RawEntries) = 2
    /\ RawEntries[1].Key = Str("images/file2.jpg")
    /\ RawEntries[2].Key = Str("docs/file1.txt")
    /\ Field("object_count") = PyInt(2)
    /\ Field("total_size_bytes") = PyInt(131080)
    /\ Lookup(Objects[1], "key") = Str("images/file2.jpg")

====
